---- MODULE Spec2Model ----
(***************************************************************************)
(* SIMBAD: the AMORE job-queue worker pool (simbad/util/amore_util.py) and *)
(* the MTZ column selection (simbad/util/mtz_util.py).                     *)
(***************************************************************************)
EXTENDS Integers, Sequences, FiniteSets, TLC

(***************************************************************************)
(* Bounds of the model.                                                    *)
(***************************************************************************)
\* the largest number of files os.walk finds under models_dir
MaxModels == 3
\* the largest optd.d['nproc']
MaxProc == 2

(***************************************************************************)
(* Program constants.                                                      *)
(***************************************************************************)
\* os.path.basename(model)[0:6], the CONTAM_ROT name length
ContamNameLen == 6
\* os.path.basename(model)[0:7], the FULL_ROT name length
FullNameLen == 7

VARIABLES
  \* ---- amore.amore_run ----
  mode,          \* optd.d['mode']
  nproc,         \* optd.d['nproc']
  listing,       \* the file names os.walk yields, in walk order
  toPut,         \* how many of them the parent has put so far
  buffer,        \* job_queue: items put, not yet flushed by the queue's feeder thread
  pipe,          \* job_queue: items a consumer's empty()/get() can see
  started,       \* number of worker processes started
  returned,      \* amore_run has returned to its caller
  pc,            \* per worker: position in run()/_amore_run
  model,         \* per worker: the local variable model of run()
  name,          \* per worker: self.name (each process has its own copy of self)
  exc,           \* per worker: the exception that ended the process, or "none"
  calls,         \* per queue item: how many times _amore_run was called with it
  clogs,         \* the rotation-search logs written under work_dir/clogs
  \* ---- CreateMtz ----
  mtz,           \* the CreateMtz object: its six array slots and mtz_dataset
  mpc,           \* position in process_miller_arrays
  raisedAt,      \* the stage that raised RuntimeError, or "none"
  original,      \* the object as it was on entry to process_miller_arrays
  all_miller_arrays,  \* the arrays of the input reflection file, in file order
  \* ---- amore_results ----
  log_dir,       \* the scanned directory: whether its path contains 'clogs', its logs
  results,       \* self.results
  sorted_results,\* self.sorted_results
  score,         \* self.score
  ncalls,        \* how many calls of return_z_score_results have ended
  rerr,          \* the exception the last call raised, or "none"
  \* ---- simbad_contaminant.main ----
  mainPc,        \* position in main()
  amore_exe,     \* os.path.isfile(args.amore_exe)
  \* ---- get_labels ----
  content,       \* the columns of the mtz file: label, type, free-flag counts
  labels,        \* what get_labels returned or raised
  lpc,           \* position in get_labels
  \* ---- amore.calculate_intr_box ----
  pdb,           \* the input PDB: mined resolution and the chains of its first model
  box,           \* what calculate_intr_box returned or raised
  bpc            \* position in calculate_intr_box

qvars == <<mode, nproc, listing, toPut, buffer, pipe, started, returned,
           pc, model, name, exc, calls, clogs>>
mvars == <<mtz, mpc, raisedAt, original, all_miller_arrays>>
rvars == <<log_dir, results, sorted_results, score, ncalls, rerr>>
avars == <<mainPc, amore_exe>>
lvars == <<content, labels, lpc>>
bvars == <<pdb, box, bpc>>
vars == <<qvars, mvars, rvars, avars, lvars, bvars>>

(***************************************************************************)
(* amore.amore_run: producer, queue and workers                            *)
(***************************************************************************)
Workers == 1..MaxProc

\* The i-th file name of the model directory, as a sequence of characters.
Digit(i) == <<"0", "1", "2", "3", "4", "5", "6", "7", "8", "9">>[i + 1]
ModelFile(i) == <<"1", "a", "b", Digit(i), "_", "A", "0", ".", "p", "d", "b">>

Prefix(s, n) == SubSeq(s, 1, IF Len(s) < n THEN Len(s) ELSE n)

\* os.path.join(work_dir, dir, stem + suffix), kept as its parts
Path(dir, stem, suffix) == <<dir, stem, suffix>>

\* the files one amore_tabfun invocation writes
TabfunWrites(n) ==
  { Path("output", n, "_rot.pdb"),
    Path("output", n, "_sfs.tab"),
    Path("", n, "_tabfun.log") }

\* the files one amore_rotfun invocation writes
RotfunWrites(n) ==
  { Path("output", n, ".hkl"),
    Path("output", n, ".clmn"),
    Path("output", n, "_spmipch.clmn"),
    Path("output", <<>>, "amore_cross.map"),
    Path("clogs", n, ".log") }

\* the files worker w's external tool is writing right now
Writing(w) ==
  IF pc[w] = "tabfun" THEN TabfunWrites(name[w])
  ELSE IF pc[w] = "rotfun" THEN RotfunWrites(name[w])
  ELSE {}

NoName == <<>>
NoModel == 0

\* Python's None in an array slot
None == [origin |-> "None", path |-> <<>>, label |-> ""]

\* CreateMtz.__init__, lines 34-40: every slot None; mtz_dataset None is <<>>
NewCreateMtz ==
  [ amplitude_array |-> None,
    anomalous_amplitude_array |-> None,
    reconstructed_amplitude_array |-> None,
    intensity_array |-> None,
    anomalous_intensity_array |-> None,
    free_array |-> None,
    mtz_dataset |-> <<>> ]

\* no CreateMtz object is at work
MtzIdle ==
  /\ mtz = NewCreateMtz
  /\ mpc = "idle"
  /\ raisedAt = "none"
  /\ original = NewCreateMtz
  /\ all_miller_arrays = <<>>

\* no amore_results object is at work
ResultsIdle ==
  /\ log_dir = [clogs |-> TRUE, logs |-> <<>>]
  /\ results = <<>>
  /\ sorted_results = <<>>
  /\ score = 0
  /\ ncalls = 0
  /\ rerr = "none"

\* main() is not running
MainIdle ==
  /\ mainPc = "idle"
  /\ amore_exe = TRUE

\* no get_labels call is at work
LabelsIdle ==
  /\ content = <<>>
  /\ labels = <<>>
  /\ lpc = "idle"

\* no calculate_intr_box call is at work
BoxIdle ==
  /\ pdb = <<>>
  /\ box = <<>>
  /\ bpc = "idle"

\* amore.__init__ and the entry of amore_run: job_queue = multiprocessing.Queue()
InitQ ==
  /\ mode \in {"CONTAM_ROT", "FULL_ROT"}
  /\ nproc \in 1..MaxProc
  /\ \E n \in 0..MaxModels : listing = [i \in 1..n |-> ModelFile(i)]
  /\ toPut = 0
  /\ buffer = <<>>
  /\ pipe = <<>>
  /\ started = 0
  /\ returned = FALSE
  /\ pc = [w \in Workers |-> "unstarted"]
  /\ model = [w \in Workers |-> NoModel]
  /\ name = [w \in Workers |-> NoName]
  /\ exc = [w \in Workers |-> "none"]
  /\ calls = [i \in 1..Len(listing) |-> 0]
  /\ clogs = {}

\* for e in os.walk(models_dir): for model in e[2]: self.job_queue.put(...)
\* put() appends to the queue's buffer; the feeder thread writes it to the pipe later
Put ==
  /\ toPut < Len(listing)
  /\ toPut' = toPut + 1
  /\ buffer' = Append(buffer, toPut + 1)
  /\ UNCHANGED <<mode, nproc, listing, pipe, started, returned, pc, model, name,
                 exc, calls, clogs>>
  /\ UNCHANGED <<mvars, rvars, avars, lvars, bvars>>

\* the feeder thread of multiprocessing.Queue moves one buffered item to the pipe
Feed ==
  /\ buffer # <<>>
  /\ pipe' = Append(pipe, Head(buffer))
  /\ buffer' = Tail(buffer)
  /\ UNCHANGED <<mode, nproc, listing, toPut, started, returned, pc, model, name,
                 exc, calls, clogs>>
  /\ UNCHANGED <<mvars, rvars, avars, lvars, bvars>>

\* for i in range(nproc): process = Process(target=run, ...); process.start()
StartProcess ==
  /\ toPut = Len(listing)
  /\ started < nproc
  /\ started' = started + 1
  /\ pc' = [pc EXCEPT ![started + 1] = "empty"]
  /\ UNCHANGED <<mode, nproc, listing, toPut, buffer, pipe, returned, model, name,
                 exc, calls, clogs>>
  /\ UNCHANGED <<mvars, rvars, avars, lvars, bvars>>

\* the end of amore_run: the processes list is dropped, nothing is joined
Return ==
  /\ toPut = Len(listing)
  /\ started = nproc
  /\ ~returned
  /\ returned' = TRUE
  /\ UNCHANGED <<mode, nproc, listing, toPut, buffer, pipe, started, pc, model, name,
                 exc, calls, clogs>>
  /\ UNCHANGED <<mvars, rvars, avars, lvars, bvars>>

\* while not job_queue.empty():
CheckEmpty(w) ==
  /\ pc[w] = "empty"
  /\ pc' = [pc EXCEPT ![w] = IF pipe = <<>> THEN "done" ELSE "get"]
  /\ UNCHANGED <<mode, nproc, listing, toPut, buffer, pipe, started, returned, model,
                 name, exc, calls, clogs>>
  /\ UNCHANGED <<mvars, rvars, avars, lvars, bvars>>

\* model = job_queue.get(timeout=TIME_OUT_IN_SECONDS), an item arrives
Get(w) ==
  /\ pc[w] = "get"
  /\ pipe # <<>>
  /\ model' = [model EXCEPT ![w] = Head(pipe)]
  /\ pipe' = Tail(pipe)
  /\ pc' = [pc EXCEPT ![w] = "amore_run"]
  /\ UNCHANGED <<mode, nproc, listing, toPut, buffer, started, returned, name, exc,
                 calls, clogs>>
  /\ UNCHANGED <<mvars, rvars, avars, lvars, bvars>>

\* the guard of the timeout: nothing arrives for TIME_OUT_IN_SECONDS
\* (a get() without its timeout: it waits for ever)
GetNeverTimesOut(w) == FALSE
GetTimesOut(w) == pc[w] = "get" /\ pipe = <<>> /\ buffer = <<>>

\* job_queue.get(timeout=...) raises Queue.Empty; run() has no handler
GetTimeout(w) ==
  /\ GetTimesOut(w)
  /\ pc' = [pc EXCEPT ![w] = "crashed"]
  /\ exc' = [exc EXCEPT ![w] = "Empty"]
  /\ UNCHANGED <<mode, nproc, listing, toPut, buffer, pipe, started, returned, model,
                 name, calls, clogs>>
  /\ UNCHANGED <<mvars, rvars, avars, lvars, bvars>>

\* _amore_run, lines 85-92: self.name from the mode; only CONTAM_ROT runs the tools
AmoreRun(w) ==
  /\ pc[w] = "amore_run"
  /\ calls' = [calls EXCEPT ![model[w]] = @ + 1]
  /\ name' = [name EXCEPT ![w] =
                Prefix(listing[model[w]],
                       IF mode = "CONTAM_ROT" THEN ContamNameLen ELSE FullNameLen)]
  /\ pc' = [pc EXCEPT ![w] = IF mode = "CONTAM_ROT" THEN "intr_box" ELSE "empty"]
  /\ UNCHANGED <<mode, nproc, listing, toPut, buffer, pipe, started, returned, model,
                 exc, clogs>>
  /\ UNCHANGED <<mvars, rvars, avars, lvars, bvars>>

\* an exception leaves _amore_run and run(): the worker process ends
Raise(w) ==
  /\ pc' = [pc EXCEPT ![w] = "crashed"]
  /\ exc' = [exc EXCEPT ![w] = "pipeline"]

\* x, y, z, intrad = self.calculate_intr_box(model): returns or raises
IntrBox(w) ==
  /\ pc[w] = "intr_box"
  /\ \/ pc' = [pc EXCEPT ![w] = "tabfun"] /\ exc' = exc
     \/ Raise(w)
  /\ UNCHANGED <<mode, nproc, listing, toPut, buffer, pipe, started, returned, model,
                 name, calls, clogs>>
  /\ UNCHANGED <<mvars, rvars, avars, lvars, bvars>>

\* self.amore_tabfun(model, x, y, z): the tool exits, the log is removed; or raises
Tabfun(w) ==
  /\ pc[w] = "tabfun"
  /\ \/ pc' = [pc EXCEPT ![w] = "rotfun"] /\ exc' = exc
     \/ Raise(w)
  /\ UNCHANGED <<mode, nproc, listing, toPut, buffer, pipe, started, returned, model,
                 name, calls, clogs>>
  /\ UNCHANGED <<mvars, rvars, avars, lvars, bvars>>

\* self.amore_rotfun(intrad): the tool exits with clogs/<name>.log written; or raises
Rotfun(w) ==
  /\ pc[w] = "rotfun"
  /\ \/ /\ pc' = [pc EXCEPT ![w] = "empty"]
        /\ exc' = exc
        /\ clogs' = clogs \cup {name[w]}
     \/ Raise(w) /\ clogs' = clogs
  /\ UNCHANGED <<mode, nproc, listing, toPut, buffer, pipe, started, returned, model,
                 name, calls>>
  /\ UNCHANGED <<mvars, rvars, avars, lvars, bvars>>

WorkerStep(w) ==
  \/ CheckEmpty(w)
  \/ Get(w)
  \/ GetTimeout(w)
  \/ AmoreRun(w)
  \/ IntrBox(w)
  \/ Tabfun(w)
  \/ Rotfun(w)

Next ==
  \/ Put
  \/ Feed
  \/ StartProcess
  \/ Return
  \/ \E w \in Workers : CheckEmpty(w)
  \/ \E w \in Workers : Get(w)
  \/ \E w \in Workers : GetTimeout(w)
  \/ \E w \in Workers : AmoreRun(w)
  \/ \E w \in Workers : IntrBox(w)
  \/ \E w \in Workers : Tabfun(w)
  \/ \E w \in Workers : Rotfun(w)

Init == InitQ /\ MtzIdle /\ ResultsIdle /\ MainIdle /\ LabelsIdle /\ BoxIdle

Spec == Init /\ [][Next]_vars

\* every process the OS runs keeps being scheduled; the feeder thread keeps running
FairSpec ==
  /\ Init
  /\ [][Next]_vars
  /\ WF_vars(Put)
  /\ WF_vars(Feed)
  /\ WF_vars(StartProcess)
  /\ \A w \in Workers : WF_vars(WorkerStep(w))

(***************************************************************************)
(* CreateMtz.process_miller_arrays                                         *)
(***************************************************************************)
\* An array is where it came from (the slot of the input file's array), the
\* library transforms applied to it since, in order, and info().labels[0].
InputArray(slot, label) == [origin |-> slot, path |-> <<>>, label |-> label]

\* the result of one library transform of an array
Transform(array, step) == [array EXCEPT !.path = Append(@, step)]

\* the first labels of the input file's free-flag arrays
FreeLabels == {"FreeR_flag", "FREE"}

\* the first label of the input file's array of each other flavor
DataLabel ==
  [ amplitude_array |-> "FP",
    anomalous_amplitude_array |-> "F(+)",
    reconstructed_amplitude_array |-> "FMEAN",
    intensity_array |-> "IMEAN",
    anomalous_intensity_array |-> "I(+)" ]

DataSlots == DOMAIN DataLabel

\* no amore_run is at work
QueueIdle ==
  /\ mode = "CONTAM_ROT"
  /\ nproc = 1
  /\ listing = <<>>
  /\ toPut = 0
  /\ buffer = <<>>
  /\ pipe = <<>>
  /\ started = 0
  /\ returned = FALSE
  /\ pc = [w \in Workers |-> "unstarted"]
  /\ model = [w \in Workers |-> NoModel]
  /\ name = [w \in Workers |-> NoName]
  /\ exc = [w \in Workers |-> "none"]
  /\ calls = <<>>
  /\ clogs = {}

\* the object on entry to process_miller_arrays: each slot None or an array
\* of the input file, mtz_dataset None
InitM ==
  /\ \E present \in SUBSET DataSlots :
       \E free \in {None} \cup {InputArray("free_array", l) : l \in FreeLabels} :
          mtz = [ amplitude_array |->
                    IF "amplitude_array" \in present
                    THEN InputArray("amplitude_array", DataLabel.amplitude_array)
                    ELSE None,
                  anomalous_amplitude_array |->
                    IF "anomalous_amplitude_array" \in present
                    THEN InputArray("anomalous_amplitude_array",
                                    DataLabel.anomalous_amplitude_array)
                    ELSE None,
                  reconstructed_amplitude_array |->
                    IF "reconstructed_amplitude_array" \in present
                    THEN InputArray("reconstructed_amplitude_array",
                                    DataLabel.reconstructed_amplitude_array)
                    ELSE None,
                  intensity_array |->
                    IF "intensity_array" \in present
                    THEN InputArray("intensity_array", DataLabel.intensity_array)
                    ELSE None,
                  anomalous_intensity_array |->
                    IF "anomalous_intensity_array" \in present
                    THEN InputArray("anomalous_intensity_array",
                                    DataLabel.anomalous_intensity_array)
                    ELSE None,
                  free_array |-> free,
                  mtz_dataset |-> <<>> ]
  /\ mpc = "amplitudes"
  /\ raisedAt = "none"
  /\ original = mtz
  /\ all_miller_arrays = <<>>

\* add_array_to_mtz_dataset with its branches swapped wrongly: a new dataset
\* is made from the array every time
AddArrayAlwaysNewDataset(self, miller_array, column_root_label) ==
  [self EXCEPT !.mtz_dataset =
     <<[label |-> column_root_label, array |-> miller_array]>>]

\* add_array_to_mtz_dataset
AddArrayToMtzDataset(self, miller_array, column_root_label) ==
  IF self.mtz_dataset # <<>>
  THEN [self EXCEPT !.mtz_dataset =
          Append(@, [label |-> column_root_label, array |-> miller_array])]
  ELSE [self EXCEPT !.mtz_dataset =
          <<[label |-> column_root_label, array |-> miller_array]>>]

CreateAmplitudeArray(self, intensity_array) ==
  [self EXCEPT !.amplitude_array = Transform(intensity_array, "xray_amplitude")]

CreateAnomalousAmplitudeArray(self, anomalous_intensity_array) ==
  [self EXCEPT !.anomalous_amplitude_array =
     Transform(anomalous_intensity_array, "xray_amplitude")]

CreateAnomalousIntensityArray(self, anomalous_amplitude_array) ==
  [self EXCEPT !.anomalous_intensity_array =
     Transform(anomalous_amplitude_array, "xray_intensity")]

CreateIntensityArray(self, amplitude_array) ==
  [self EXCEPT !.intensity_array = Transform(amplitude_array, "xray_intensity")]

CreateMergedIntensityArray(self, anomalous_intensity_array) ==
  [self EXCEPT !.intensity_array =
     Transform(Transform(Transform(anomalous_intensity_array,
                                   "as_non_anomalous_array"),
                         "merge_equivalents"),
               "xray_intensity")]

CreateReconstructedAmplitudeArray(self, anomalous_amplitude_array) ==
  [self EXCEPT !.reconstructed_amplitude_array =
     Transform(anomalous_amplitude_array, "reconstructed_amplitude")]

\* the amplitude chain with the plain amplitude tested first
AmplitudeBranchPlainFirst(self) ==
  IF self.amplitude_array # None THEN "amplitude_array"
  ELSE IF self.reconstructed_amplitude_array # None THEN "reconstructed_amplitude_array"
  ELSE IF self.anomalous_amplitude_array # None THEN "anomalous_amplitude_array"
  ELSE IF self.anomalous_intensity_array # None THEN "anomalous_intensity_array"
  ELSE IF self.intensity_array # None THEN "intensity_array"
  ELSE "raise"

\* which branch of the "Add amplitudes" if/elif chain is taken (lines 254-271)
AmplitudeBranch(self) ==
  IF self.reconstructed_amplitude_array # None THEN "reconstructed_amplitude_array"
  ELSE IF self.anomalous_amplitude_array # None THEN "anomalous_amplitude_array"
  ELSE IF self.anomalous_intensity_array # None THEN "anomalous_intensity_array"
  ELSE IF self.amplitude_array # None THEN "amplitude_array"
  ELSE IF self.intensity_array # None THEN "intensity_array"
  ELSE "raise"

\* the body of the branch taken (lines 255-267)
AmplitudeStage(self) ==
  LET b == AmplitudeBranch(self) IN
  IF b = "reconstructed_amplitude_array"
  THEN AddArrayToMtzDataset(self, self.reconstructed_amplitude_array, "F")
  ELSE IF b = "anomalous_amplitude_array"
  THEN LET s1 == CreateReconstructedAmplitudeArray(self, self.anomalous_amplitude_array)
       IN  AddArrayToMtzDataset(s1, s1.reconstructed_amplitude_array, "F")
  ELSE IF b = "anomalous_intensity_array"
  THEN LET s1 == CreateAnomalousAmplitudeArray(self, self.anomalous_intensity_array)
           s2 == CreateReconstructedAmplitudeArray(s1, s1.anomalous_amplitude_array)
       IN  AddArrayToMtzDataset(s2, s2.reconstructed_amplitude_array, "F")
  ELSE IF b = "amplitude_array"
  THEN AddArrayToMtzDataset(self, self.amplitude_array, "F")
  ELSE LET s1 == CreateAmplitudeArray(self, self.intensity_array)
       IN  AddArrayToMtzDataset(s1, s1.amplitude_array, "F")

\* the intensity chain with the reconstructed amplitude tested before the
\* anomalous amplitude
IntensityBranchReconstructedEarly(self) ==
  IF self.intensity_array # None THEN "intensity_array"
  ELSE IF self.amplitude_array # None THEN "amplitude_array"
  ELSE IF self.anomalous_intensity_array # None THEN "anomalous_intensity_array"
  ELSE IF self.reconstructed_amplitude_array # None THEN "reconstructed_amplitude_array"
  ELSE IF self.anomalous_amplitude_array # None THEN "anomalous_amplitude_array"
  ELSE "raise"

\* which branch of the "Add intensities" if/elif chain is taken (lines 274-293)
IntensityBranch(self) ==
  IF self.intensity_array # None THEN "intensity_array"
  ELSE IF self.amplitude_array # None THEN "amplitude_array"
  ELSE IF self.anomalous_intensity_array # None THEN "anomalous_intensity_array"
  ELSE IF self.anomalous_amplitude_array # None THEN "anomalous_amplitude_array"
  ELSE IF self.reconstructed_amplitude_array # None THEN "reconstructed_amplitude_array"
  ELSE "raise"

\* the body of the branch taken (lines 275-289)
IntensityStage(self) ==
  LET b == IntensityBranch(self) IN
  IF b = "intensity_array"
  THEN AddArrayToMtzDataset(self, self.intensity_array, "I")
  ELSE IF b = "amplitude_array"
  THEN LET s1 == CreateIntensityArray(self, self.amplitude_array)
       IN  AddArrayToMtzDataset(s1, s1.intensity_array, "I")
  ELSE IF b = "anomalous_intensity_array"
  THEN LET s1 == CreateMergedIntensityArray(self, self.anomalous_intensity_array)
       IN  AddArrayToMtzDataset(s1, s1.intensity_array, "I")
  ELSE IF b = "anomalous_amplitude_array"
  THEN LET s1 == CreateAnomalousIntensityArray(self, self.anomalous_amplitude_array)
           s2 == CreateMergedIntensityArray(s1, s1.anomalous_intensity_array)
       IN  AddArrayToMtzDataset(s2, s2.intensity_array, "I")
  ELSE LET s1 == CreateAnomalousIntensityArray(self, self.reconstructed_amplitude_array)
           s2 == CreateMergedIntensityArray(s1, s1.anomalous_intensity_array)
       IN  AddArrayToMtzDataset(s2, s2.intensity_array, "I")

\* the free-flag stage naming every free-flag column "FreeR_flag"
FreeStageFixedLabel(self) ==
  IF self.free_array # None
  THEN AddArrayToMtzDataset(self, self.free_array, "FreeR_flag")
  ELSE LET s1 == [self EXCEPT !.free_array =
                    Transform(self.intensity_array, "generate_r_free_flags")]
       IN  AddArrayToMtzDataset(s1, s1.free_array, "FreeR_flag")

\* the "Add free flag" if/else (lines 296-301)
FreeStage(self) ==
  IF self.free_array # None
  THEN AddArrayToMtzDataset(self, self.free_array, self.free_array.label)
  ELSE LET s1 == [self EXCEPT !.free_array =
                    Transform(self.intensity_array, "generate_r_free_flags")]
       IN  AddArrayToMtzDataset(s1, s1.free_array, "FreeR_flag")

\* the amplitude stage without its final else: nothing is added and control
\* falls through to the intensity stage
AddAmplitudesWithoutElse ==
  /\ mpc = "amplitudes"
  /\ mtz' = IF AmplitudeBranch(mtz) = "raise" THEN mtz ELSE AmplitudeStage(mtz)
  /\ mpc' = "intensities"
  /\ UNCHANGED <<raisedAt, original>>
  /\ UNCHANGED <<all_miller_arrays, qvars, rvars, avars, lvars, bvars>>

\* # Add amplitudes (lines 253-271)
AddAmplitudes ==
  /\ mpc = "amplitudes"
  /\ IF AmplitudeBranch(mtz) = "raise"
     THEN /\ mpc' = "raised"
          /\ raisedAt' = "amplitudes"
          /\ mtz' = mtz
     ELSE /\ mtz' = AmplitudeStage(mtz)
          /\ mpc' = "intensities"
          /\ raisedAt' = raisedAt
  /\ UNCHANGED original
  /\ UNCHANGED <<all_miller_arrays, qvars, rvars, avars, lvars, bvars>>

\* # Add intensities (lines 273-293)
AddIntensities ==
  /\ mpc = "intensities"
  /\ IF IntensityBranch(mtz) = "raise"
     THEN /\ mpc' = "raised"
          /\ raisedAt' = "intensities"
          /\ mtz' = mtz
     ELSE /\ mtz' = IntensityStage(mtz)
          /\ mpc' = "free"
          /\ raisedAt' = raisedAt
  /\ UNCHANGED original
  /\ UNCHANGED <<all_miller_arrays, qvars, rvars, avars, lvars, bvars>>

\* # Add free flag (lines 295-302)
AddFreeFlag ==
  /\ mpc = "free"
  /\ mtz' = FreeStage(mtz)
  /\ mpc' = "done"
  /\ UNCHANGED <<raisedAt, original>>
  /\ UNCHANGED <<all_miller_arrays, qvars, rvars, avars, lvars, bvars>>

NextM ==
  \/ AddAmplitudes
  \/ AddIntensities
  \/ AddFreeFlag

\* process_miller_arrays run on every combination of present and absent slots
InitProcess == QueueIdle /\ InitM /\ ResultsIdle /\ MainIdle /\ LabelsIdle /\ BoxIdle

SpecProcess == InitProcess /\ [][NextM]_vars


(***************************************************************************)
(* CreateMtz.__init__: get_array_types, then process_miller_arrays         *)
(***************************************************************************)
\* the largest number of arrays in the input reflection file
MaxArrays == 2

\* The arrays a reflection file can hold, each by its declared flavor: the
\* origin names the slot of that flavor; "other_array" has no observation
\* type and does not look like free flags (phases, weights, ...).
FileArrays ==
  { InputArray("amplitude_array", "FP"), InputArray("amplitude_array", "F"),
    InputArray("anomalous_amplitude_array", "F(+)"),
    InputArray("reconstructed_amplitude_array", "FMEAN"),
    InputArray("intensity_array", "IMEAN"), InputArray("intensity_array", "I"),
    InputArray("anomalous_intensity_array", "I(+)"),
    InputArray("free_array", "FreeR_flag"), InputArray("free_array", "FREE"),
    InputArray("other_array", "PHIC") }

\* miller_array.observation_type()
ObservationType(miller_array) ==
  IF miller_array.origin \in {"amplitude_array", "anomalous_amplitude_array"}
  THEN "amplitude"
  ELSE IF miller_array.origin = "reconstructed_amplitude_array"
  THEN "reconstructed_amplitude"
  ELSE IF miller_array.origin \in {"intensity_array", "anomalous_intensity_array"}
  THEN "intensity"
  ELSE "None"

\* miller_array.anomalous_flag()
AnomalousFlag(miller_array) ==
  miller_array.origin \in {"anomalous_amplitude_array", "anomalous_intensity_array",
                           "reconstructed_amplitude_array"}

\* looks_like_r_free_flags_info(miller_array.info())
LooksLikeRFreeFlagsInfo(miller_array) == miller_array.origin = "free_array"

\* The truth value of the expression miller_array.is_xray_amplitude_array as
\* the code writes it, without a call: a bound method object, always true.
\* The same holds for is_xray_reconstructed_amplitude_array and
\* is_xray_intensity_array.
IsXrayAmplitudeArrayAttr(miller_array) == TRUE
IsXrayReconstructedAmplitudeArrayAttr(miller_array) == TRUE
IsXrayIntensityArrayAttr(miller_array) == TRUE

\* the body of the loop of get_array_types for one array (lines 196-209)
ClassifyArray(self, miller_array) ==
  LET s1 == IF ObservationType(miller_array) = "None"
               /\ LooksLikeRFreeFlagsInfo(miller_array)
            THEN [self EXCEPT !.free_array = miller_array]
            ELSE self
  IN  IF IsXrayAmplitudeArrayAttr(miller_array) /\ ~AnomalousFlag(miller_array)
      THEN [s1 EXCEPT !.amplitude_array = miller_array]
      ELSE IF IsXrayAmplitudeArrayAttr(miller_array) /\ AnomalousFlag(miller_array)
      THEN [s1 EXCEPT !.anomalous_amplitude_array = miller_array]
      ELSE IF IsXrayReconstructedAmplitudeArrayAttr(miller_array)
      THEN [s1 EXCEPT !.reconstructed_amplitude_array = miller_array]
      ELSE IF IsXrayIntensityArrayAttr(miller_array) /\ ~AnomalousFlag(miller_array)
      THEN [s1 EXCEPT !.intensity_array = miller_array]
      ELSE IF IsXrayIntensityArrayAttr(miller_array) /\ AnomalousFlag(miller_array)
      THEN [s1 EXCEPT !.anomalous_intensity_array = miller_array]
      ELSE s1

\* for miller_array in all_miller_arrays: ... (lines 195-210)
RECURSIVE ClassifyAll(_, _)
ClassifyAll(self, arrays) ==
  IF arrays = <<>> THEN self
  ELSE ClassifyAll(ClassifyArray(self, Head(arrays)), Tail(arrays))

\* the sequences over S of length at most n
SeqUpTo(S, n) == UNION {[1..k -> S] : k \in 0..n}

\* CreateMtz.__init__ up to line 48: empty slots, the file's arrays read
InitTypes ==
  /\ all_miller_arrays \in SeqUpTo(FileArrays, MaxArrays)
  /\ mtz = NewCreateMtz
  /\ mpc = "types"
  /\ raisedAt = "none"
  /\ original = NewCreateMtz

\* self.get_array_types(all_miller_arrays) (line 49)
GetArrayTypes ==
  /\ mpc = "types"
  /\ mtz' = ClassifyAll(mtz, all_miller_arrays)
  /\ original' = mtz'
  /\ mpc' = "amplitudes"
  /\ UNCHANGED raisedAt
  /\ UNCHANGED <<all_miller_arrays, qvars, rvars, avars, lvars, bvars>>

NextCreate ==
  \/ GetArrayTypes
  \/ AddAmplitudes
  \/ AddIntensities
  \/ AddFreeFlag

InitCreate == QueueIdle /\ InitTypes /\ ResultsIdle /\ MainIdle /\ LabelsIdle /\ BoxIdle

\* CreateMtz(input_reflection_file) on every short list of arrays
SpecCreate == InitCreate /\ [][NextCreate]_vars

(***************************************************************************)
(* amore_results.return_z_score_results                                    *)
(***************************************************************************)
\* the largest number of logs in a directory of mixed logs
MaxLogs == 4
\* the largest number of logs in a directory of equal logs
MaxManyLogs == 21
\* the largest number of calls on one amore_results object
MaxCalls == 2

\* if count < 20 (line 334) and if count < 200 (line 337)
CapClogs == 20
CapOther == 200

\* A whitespace-separated token of a log line: num says whether float()
\* accepts it, v is the number float() returns then.
Num(n) == [num |-> TRUE, v |-> n]
Stars == [num |-> FALSE, v |-> 0]

\* A log line: whether it starts with " SOLUTIONRCD ", and the tokens at the
\* positions the parser reads: fields[2..4], fields[8..12], fields[-3..-1].
Line(solution, f2, f8, f12, z) ==
  [ solution |-> solution, f2 |-> f2, f3 |-> Num(2), f4 |-> Num(3),
    f8 |-> f8, f9 |-> Num(4), f10 |-> Num(5), f11 |-> Num(6), f12 |-> f12,
    fm3 |-> z, fm2 |-> Num(7), fm1 |-> Num(8) ]

OtherLine == Line(FALSE, Num(0), Num(0), Num(0), Num(0))

\* the contents a log file can have
LogContents ==
  { <<Line(TRUE, Num(10), Num(11), Num(12), Num(5))>>,
    <<OtherLine, Line(TRUE, Num(20), Num(21), Num(22), Num(9)),
      Line(TRUE, Num(25), Num(26), Num(27), Num(5))>>,
    <<Line(TRUE, Num(30), Stars, Num(32), Num(9))>>,
    <<OtherLine>>,
    <<Line(TRUE, Num(40), Num(41), Num(42), Num(0)),
      Line(TRUE, Num(50), Num(51), Stars, Num(3))>>,
    <<Line(TRUE, Stars, Num(61), Num(62), Num(4))>> }

\* the i-th file name of the log directory, as a sequence of characters
LogFile(i) ==
  <<"1", "a", Digit(i \div 10), Digit(i % 10), "_", "A", ".", "l", "o", "g">>

\* the directories scanned: a few logs of any contents, or many equal logs
LogDirs ==
  { [clogs |-> c, logs |-> l] :
      c \in BOOLEAN, l \in SeqUpTo(LogContents, MaxLogs) }
  \cup
  { [clogs |-> c, logs |-> [i \in 1..n |-> l]] :
      c \in BOOLEAN, n \in 0..MaxManyLogs,
      l \in {<<Line(TRUE, Num(10), Num(11), Num(12), Num(5))>>} }

\* the 'N/A' marker and a float, as values of the fields CC_F .. Icp
NA == [marker |-> "N/A", value |-> 0]
Float(n) == [marker |-> "", value |-> n]

\* the local variables ALPHA .. Num_of_rot before any assignment
Unbound ==
  [ bound |-> FALSE, ALPHA |-> 0, BETA |-> 0, GAMMA |-> 0,
    CC_F |-> NA, RF_F |-> NA, CC_I |-> NA, CC_P |-> NA, Icp |-> NA,
    CC_F_Z_score |-> 0, CC_P_Z_score |-> 0, Num_of_rot |-> 0 ]

\* the except branch storing 0.0 for the fields that failed
ExceptBranchZero(line) ==
  IF line.f2.num /\ line.f3.num /\ line.f4.num
     /\ line.fm3.num /\ line.fm2.num /\ line.fm1.num
  THEN [ err |-> "none",
         vals |-> [ bound |-> TRUE,
                    ALPHA |-> line.f2.v, BETA |-> line.f3.v, GAMMA |-> line.f4.v,
                    CC_F |-> Float(0), RF_F |-> Float(0), CC_I |-> Float(0),
                    CC_P |-> Float(0), Icp |-> Float(0),
                    CC_F_Z_score |-> line.fm3.v, CC_P_Z_score |-> line.fm2.v,
                    Num_of_rot |-> line.fm1.v ] ]
  ELSE [err |-> "ValueError", vals |-> Unbound]

\* except ValueError: (lines 297-308); a float() that fails here propagates
ExceptBranch(line) ==
  IF line.f2.num /\ line.f3.num /\ line.f4.num
     /\ line.fm3.num /\ line.fm2.num /\ line.fm1.num
  THEN [ err |-> "none",
         vals |-> [ bound |-> TRUE,
                    ALPHA |-> line.f2.v, BETA |-> line.f3.v, GAMMA |-> line.f4.v,
                    CC_F |-> NA, RF_F |-> NA, CC_I |-> NA, CC_P |-> NA, Icp |-> NA,
                    CC_F_Z_score |-> line.fm3.v, CC_P_Z_score |-> line.fm2.v,
                    Num_of_rot |-> line.fm1.v ] ]
  ELSE [err |-> "ValueError", vals |-> Unbound]

\* try: ... except ValueError: ... for one qualifying line (lines 284-308)
ParseFields(line) ==
  IF line.f2.num /\ line.f3.num /\ line.f4.num
     /\ line.f8.num /\ line.f9.num /\ line.f10.num /\ line.f11.num /\ line.f12.num
     /\ line.fm3.num /\ line.fm2.num /\ line.fm1.num
  THEN [ err |-> "none",
         vals |-> [ bound |-> TRUE,
                    ALPHA |-> line.f2.v, BETA |-> line.f3.v, GAMMA |-> line.f4.v,
                    CC_F |-> Float(line.f8.v), RF_F |-> Float(line.f9.v),
                    CC_I |-> Float(line.f10.v), CC_P |-> Float(line.f11.v),
                    Icp |-> Float(line.f12.v),
                    CC_F_Z_score |-> line.fm3.v, CC_P_Z_score |-> line.fm2.v,
                    Num_of_rot |-> line.fm1.v ] ]
  ELSE ExceptBranch(line)

\* for line in open(log): ... break (lines 280-310); vals are the locals so far
RECURSIVE ScanLines(_, _, _)
ScanLines(lines, vals, threshold) ==
  IF lines = <<>> THEN [err |-> "none", vals |-> vals]
  ELSE LET line == Head(lines) IN
       IF ~line.solution THEN ScanLines(Tail(lines), vals, threshold)
       ELSE IF ~line.fm3.num THEN [err |-> "ValueError", vals |-> vals]
       ELSE IF line.fm3.v > threshold THEN ParseFields(line)
       ELSE ScanLines(Tail(lines), vals, threshold)

\* if 'clogs' in log_dir: log_name = log[0:6] else: log_name = log[0:7]
LogName(contaminant, log) == Prefix(log, IF contaminant THEN ContamNameLen ELSE FullNameLen)

\* amore_results(log_name=..., ALPHA=ALPHA, ...) (lines 316-327)
Record(log_name, vals) ==
  [ log_name |-> log_name,
    ALPHA |-> vals.ALPHA, BETA |-> vals.BETA, GAMMA |-> vals.GAMMA,
    CC_F |-> vals.CC_F, RF_F |-> vals.RF_F, CC_I |-> vals.CC_I,
    CC_P |-> vals.CC_P, Icp |-> vals.Icp,
    CC_F_Z_score |-> vals.CC_F_Z_score, CC_P_Z_score |-> vals.CC_P_Z_score,
    Number_of_rotation_searches_producing_peak |-> vals.Num_of_rot ]

\* for log in e[2]: scan, name, append (lines 279-327), from the i-th log on;
\* an exception ends the call with self.results as it is by then
RECURSIVE ScanLogs(_, _, _, _, _)
ScanLogs(dir, i, res, vals, threshold) ==
  IF i > Len(dir.logs) THEN [err |-> "none", results |-> res]
  ELSE LET scan == ScanLines(dir.logs[i], vals, threshold) IN
       IF scan.err # "none" THEN [err |-> scan.err, results |-> res]
       ELSE IF ~scan.vals.bound THEN [err |-> "UnboundLocalError", results |-> res]
       ELSE ScanLogs(dir, i + 1,
                     Append(res, Record(LogName(dir.clogs, LogFile(i)), scan.vals)),
                     scan.vals, threshold)

\* where x goes when equal scores end up in reverse order
PlaceBeforeEquals(sorted, x) ==
  Cardinality({k \in 1..Len(sorted) : sorted[k].CC_F_Z_score > x.CC_F_Z_score})

\* where x goes in a sequence already in descending order, after its equals
PlaceAfterEquals(sorted, x) ==
  Cardinality({k \in 1..Len(sorted) : sorted[k].CC_F_Z_score >= x.CC_F_Z_score})

\* sorted(self.results, key=lambda x: x.CC_F_Z_score, reverse=True): a stable
\* sort, equal scores keep the order of self.results
RECURSIVE SortedSolutions(_)
SortedSolutions(res) ==
  IF res = <<>> THEN <<>>
  ELSE LET front == SortedSolutions(SubSeq(res, 1, Len(res) - 1))
           x == res[Len(res)]
           k == PlaceAfterEquals(front, x)
       IN  SubSeq(front, 1, k) \o <<x>> \o SubSeq(front, k + 1, Len(front))

\* count = 0; for solution in sorted_solutions: ... (lines 331-338); count is
\* never assigned again
RECURSIVE AppendSolutions(_, _, _, _)
AppendSolutions(out, solutions, count, contaminant) ==
  IF solutions = <<>> THEN out
  ELSE AppendSolutions(
         IF contaminant
         THEN IF count < CapClogs THEN Append(out, Head(solutions)) ELSE out
         ELSE IF count < CapOther THEN Append(out, Head(solutions)) ELSE out,
         Tail(solutions), count, contaminant)

\* amore_results() (lines 259-262) and the directory it will scan
InitR ==
  /\ log_dir \in LogDirs
  /\ results = <<>>
  /\ sorted_results = <<>>
  /\ score = 0
  /\ ncalls = 0
  /\ rerr = "none"

\* one call of return_z_score_results(log_dir)
ReturnZScoreResults ==
  /\ ncalls < MaxCalls
  /\ LET scan == ScanLogs(log_dir, 1, results, Unbound, score) IN
       /\ results' = scan.results
       /\ rerr' = scan.err
       /\ sorted_results' =
            IF scan.err = "none"
            THEN AppendSolutions(sorted_results, SortedSolutions(scan.results),
                                 0, log_dir.clogs)
            ELSE sorted_results
  /\ ncalls' = ncalls + 1
  /\ UNCHANGED <<log_dir, score>>
  /\ UNCHANGED <<qvars, mvars, avars, lvars, bvars>>

NextR == ReturnZScoreResults

InitResults == QueueIdle /\ MtzIdle /\ InitR /\ MainIdle /\ LabelsIdle /\ BoxIdle

\* an amore_results object and the calls made on it
SpecResults == InitResults /\ [][NextR]_vars

(***************************************************************************)
(* simbad_contaminant.main                                                 *)
(***************************************************************************)
\* main() after argument parsing and logging setup (lines 38-52); amore_exe
\* is whether args.amore_exe names an existing file
InitMainArgs ==
  /\ mainPc = "check"
  /\ amore_exe \in BOOLEAN

\* main() going on to the search whatever args.amore_exe names
CheckAmoreExeSkipped ==
  /\ mainPc = "check"
  /\ mainPc' = "setup"
  /\ UNCHANGED amore_exe
  /\ UNCHANGED <<qvars, mvars, rvars, lvars, bvars>>

\* if not os.path.isfile(args.amore_exe): raise OSError(...)
CheckAmoreExe ==
  /\ mainPc = "check"
  /\ mainPc' = IF amore_exe THEN "setup" ELSE "OSError"
  /\ UNCHANGED amore_exe
  /\ UNCHANGED <<qvars, mvars, rvars, lvars, bvars>>

\* gui, header, stopwatch, then _simbad_contaminant_search(args) is called
StartSearch ==
  /\ mainPc = "setup"
  /\ mainPc' = "search"
  /\ UNCHANGED amore_exe
  /\ UNCHANGED <<qvars, mvars, rvars, lvars, bvars>>

\* the search at work: the rotation search of amore_run over the models
ContaminantSearch ==
  /\ mainPc = "search"
  /\ Next

\* the search has returned; results are reported and main() ends
FinishMain ==
  /\ mainPc = "search"
  /\ returned
  /\ mainPc' = "done"
  /\ UNCHANGED amore_exe
  /\ UNCHANGED <<qvars, mvars, rvars, lvars, bvars>>

NextMain ==
  \/ CheckAmoreExe
  \/ StartSearch
  \/ ContaminantSearch
  \/ FinishMain

InitMain == InitQ /\ MtzIdle /\ ResultsIdle /\ InitMainArgs /\ LabelsIdle /\ BoxIdle

\* one run of the contaminant command line
SpecMain == InitMain /\ [][NextMain]_vars

(***************************************************************************)
(* get_labels                                                              *)
(***************************************************************************)
\* a column of an MTZ file: its label, its type, and for the free-flag test
\* the numbers of valid reflections flagged 0 (n0) and not 0 (n1)
Column(label, type, n0, n1) == [label |-> label, type |-> type, n0 |-> n0, n1 |-> n1]

\* the columns a file is made of, in file order
AllColumns ==
  << Column(<<"F", "P">>, "F", 0, 9),
     Column(<<"S", "I", "G", "F", "P">>, "Q", 0, 9),
     Column(<<"F">>, "F", 0, 9),
     Column(<<"S", "I", "G", "F">>, "Q", 0, 9),
     Column(<<"I">>, "J", 0, 9),
     Column(<<"S", "I", "G", "I">>, "Q", 0, 9),
     Column(<<"D", "A", "N", "O">>, "D", 1, 8),
     Column(<<"S", "I", "G", "D", "A", "N", "O">>, "Q", 0, 9),
     Column(<<"F", "r", "e", "e", "R", "_", "f", "l", "a", "g">>, "I", 1, 8),
     Column(<<"F", "R", "E", "E">>, "I", 9, 0) >>

\* the columns of AllColumns at the positions in S, in file order
RECURSIVE Pick(_, _)
Pick(S, k) ==
  IF k > Len(AllColumns) THEN <<>>
  ELSE IF k \in S THEN <<AllColumns[k]>> \o Pick(S, k + 1)
  ELSE Pick(S, k + 1)

\* the files get_labels can be given
Files ==
  { [file_type |-> t, columns |-> Pick(S, 1)] :
      t \in {"ccp4_mtz", "shelx_hklf"}, S \in SUBSET (1..Len(AllColumns)) }

\* content.column_types() and content.column_labels()
ColumnTypes(columns) == [k \in 1..Len(columns) |-> columns[k].type]
ColumnLabels(columns) == [k \in 1..Len(columns) |-> columns[k].label]

\* x in seq, and seq.index(x)
Contains(seq, x) == \E k \in 1..Len(seq) : seq[k] = x
Index(seq, x) ==
  CHOOSE k \in 1..Len(seq) : seq[k] = x /\ \A m \in 1..(k - 1) : seq[m] # x

\* a label that is a str, and None
Label(l) == [none |-> FALSE, label |-> l]
NoLabel == [none |-> TRUE, label |-> <<>>]

\* 'SIG' + label
SIG(label) == <<"S", "I", "G">> \o label

\* label.lower()
LowerOf ==
  ("A" :> "a") @@ ("D" :> "d") @@ ("E" :> "e") @@ ("F" :> "f") @@ ("G" :> "g")
  @@ ("I" :> "i") @@ ("N" :> "n") @@ ("O" :> "o") @@ ("P" :> "p")
  @@ ("R" :> "r") @@ ("S" :> "s")
Lower(label) ==
  [k \in 1..Len(label) |->
     IF label[k] \in DOMAIN LowerOf THEN LowerOf[label[k]] ELSE label[k]]

\* sub in s, for strings
InString(sub, s) ==
  \E k \in 0..(Len(s) - Len(sub)) : SubSeq(s, k + 1, k + Len(sub)) = sub

\* the body of the try block (lines 391-401)
AnomalousLabels(columns) ==
  LET ctypes == ColumnTypes(columns)
      clabels == ColumnLabels(columns)
  IN  IF ~Contains(ctypes, "D")
      THEN [raised |-> TRUE, dano |-> NoLabel, sigdano |-> NoLabel]
      ELSE LET dano == clabels[Index(ctypes, "D")] IN
           IF ~Contains(clabels, SIG(dano))
           THEN [raised |-> TRUE, dano |-> Label(dano), sigdano |-> Label(SIG(dano))]
           ELSE [raised |-> FALSE, dano |-> Label(dano), sigdano |-> Label(SIG(dano))]

\* the try block without its except clause
AnomalousLabelsUncaught(columns) == AnomalousLabels(columns)

\* try: ... except RuntimeError: dano, sigdano = None, None (lines 391-403)
TryAnomalousLabels(columns) ==
  LET body == AnomalousLabels(columns) IN
    IF body.raised
    THEN [raised |-> FALSE, dano |-> NoLabel, sigdano |-> NoLabel]
    ELSE body

\* for label in content.column_labels(): ... free = label (lines 405-417)
RECURSIVE FreeLabel(_, _, _)
FreeLabel(columns, k, free) ==
  IF k > Len(columns) THEN free
  ELSE LET c == columns[k] IN
       IF InString(<<"f", "r", "e", "e">>, Lower(c.label)) /\ c.n0 > 0 /\ c.n1 > 0
       THEN FreeLabel(columns, k + 1, Label(c.label))
       ELSE FreeLabel(columns, k + 1, free)

\* get_labels is about to be called on a file
InitL ==
  /\ content \in Files
  /\ labels = <<>>
  /\ lpc = "call"

\* get_labels(mtz_file) raising RuntimeError (the raise statements of lines
\* 355-389, or one leaving the try block of lines 391-403)
GetLabelsRaises ==
  LET ctypes == ColumnTypes(content.columns)
      clabels == ColumnLabels(content.columns)
  IN  \/ content.file_type # "ccp4_mtz"
      \/ ~Contains(ctypes, "F")
      \/ ~Contains(clabels, SIG(clabels[Index(ctypes, "F")]))
      \/ ~Contains(ctypes, "J")
      \/ ~Contains(clabels, SIG(clabels[Index(ctypes, "J")]))
      \/ TryAnomalousLabels(content.columns).raised

\* one call of get_labels(mtz_file)
GetLabels ==
  /\ lpc = "call"
  /\ IF GetLabelsRaises
     THEN /\ lpc' = "RuntimeError"
          /\ UNCHANGED labels
     ELSE LET ctypes == ColumnTypes(content.columns)
              clabels == ColumnLabels(content.columns)
              f == clabels[Index(ctypes, "F")]
              i == clabels[Index(ctypes, "J")]
              anom == TryAnomalousLabels(content.columns)
          IN  /\ lpc' = "returned"
              /\ labels' = [ f |-> Label(f), fp |-> Label(SIG(f)),
                             i |-> Label(i), sigi |-> Label(SIG(i)),
                             dano |-> anom.dano, sigdano |-> anom.sigdano,
                             free |-> FreeLabel(content.columns, 1, NoLabel) ]
  /\ UNCHANGED content
  /\ UNCHANGED <<qvars, mvars, rvars, avars, bvars>>

NextL == GetLabels

InitLabels == QueueIdle /\ MtzIdle /\ ResultsIdle /\ MainIdle /\ InitL /\ BoxIdle

\* one call of get_labels on any of the files
SpecLabels == InitLabels /\ [][NextL]_vars

(***************************************************************************)
(* amore.calculate_intr_box                                                *)
(***************************************************************************)
\* Lengths are kept in quarters of an Angstrom, so that 0.75 * d is exact.
Quarters(angstrom) == angstrom + angstrom + angstrom + angstrom

\* atom.xyz of the atoms a chain can hold, in Angstrom
Atoms ==
  ({0, 10} \X {0, 5} \X {0, 2}) \cup {<<-3, 1, 7>>}

\* what mining.extract_best_resolution returns: None, or 1.5, 2.0, 3.0
NoResolution == [known |-> FALSE, value |-> 0]
Resolutions ==
  {NoResolution} \cup {[known |-> TRUE, value |-> v] : v \in {6, 8, 12}}

\* the chains that can follow the first one
OtherChains == {<<>>, <<{<<40, 40, 40>>, <<0, 0, 0>>}>>}

\* the files: a resolution and the models, each a sequence of chains, each
\* the set of its atoms
Pdbs ==
  { [resolution |-> r, models |-> <<<<atoms>> \o more>>] :
      r \in Resolutions, atoms \in SUBSET Atoms, more \in OtherChains }
  \cup { [resolution |-> r, models |-> m] : r \in Resolutions, m \in {<<>>, <<<<>>>>} }

\* max(x) and min(x); the list is not empty
Max(S) == CHOOSE m \in S : \A n \in S : n <= m
Min(S) == CHOOSE m \in S : \A n \in S : m <= n

\* the atoms of every chain of the first model
AllChainsAtoms(p) == UNION {p.models[1][c] : c \in 1..Len(p.models[1])}

\* hierarchy.models()[0].chains()[0], all its atoms (lines 175-180)
FirstChainAtoms(p) == p.models[1][1]

\* max(x) - min(x) for one axis, in quarters
Diff(atoms, axis) ==
  Quarters(Max({a[axis] : a \in atoms})) - Quarters(Min({a[axis] : a \in atoms}))

\* min(xdiff, ydiff, zdiff) * 0.75, in quarters
Intrad(xdiff, ydiff, zdiff) == (3 * Min({xdiff, ydiff, zdiff})) \div 4

\* the file about to be given to calculate_intr_box
InitB ==
  /\ pdb \in Pdbs
  /\ box = <<>>
  /\ bpc = "call"

\* one call of calculate_intr_box(model)
CalculateIntrBox ==
  /\ bpc = "call"
  /\ IF pdb.models = <<>> \/ pdb.models[1] = <<>>
     THEN bpc' = "IndexError" /\ UNCHANGED box
     ELSE IF FirstChainAtoms(pdb) = {}
     THEN bpc' = "ValueError" /\ UNCHANGED box
     ELSE LET resolution == IF pdb.resolution.known THEN pdb.resolution.value
                            ELSE Quarters(2)
              atoms == FirstChainAtoms(pdb)
              xdiff == Diff(atoms, 1)
              ydiff == Diff(atoms, 2)
              zdiff == Diff(atoms, 3)
              intrad == Intrad(xdiff, ydiff, zdiff)
          IN  /\ bpc' = "returned"
              /\ box' = [ x |-> xdiff + intrad + resolution,
                          y |-> ydiff + intrad + resolution,
                          z |-> zdiff + intrad + resolution,
                          intrad |-> intrad ]
  /\ UNCHANGED pdb
  /\ UNCHANGED <<qvars, mvars, rvars, avars, lvars>>

NextB == CalculateIntrBox

InitBox == QueueIdle /\ MtzIdle /\ ResultsIdle /\ MainIdle /\ LabelsIdle /\ InitB

\* one call of calculate_intr_box on any of the files
SpecBox == InitBox /\ [][NextB]_vars

(***************************************************************************)
(* Claims about amore_run                                                  *)
(***************************************************************************)
AllWorkersExited ==
  /\ started = nproc
  /\ \A w \in 1..nproc : pc[w] \in {"done", "crashed"}

InPipeline(w) == pc[w] \in {"amore_run", "intr_box", "tabfun", "rotfun"}

\* C1: with 1 <= W <= N, once all workers have exited every enqueued model
\* was passed to _amore_run exactly once (none twice, none left unprocessed).
C1_EveryModelExactlyOnce ==
  /\ \A i \in 1..Len(listing) : calls[i] <= 1
  /\ (nproc <= Len(listing) /\ AllWorkersExited)
        => \A i \in 1..Len(listing) : calls[i] = 1

\* C2: an exception of the per-model pipeline is caught at the per-model
\* boundary: it never ends the worker process that ran the pipeline.
C2_PipelineFailureKeepsWorker ==
  \A w \in Workers : ~(pc[w] = "crashed" /\ exc[w] = "pipeline")

\* C3: a worker whose pop finds no item (its get times out) ends as a normal
\* completion, without an uncaught exception.
C3_TimeoutIsNormalCompletion ==
  \A w \in Workers : ~(pc[w] = "crashed" /\ exc[w] = "Empty")

\* C4: when amore_run has returned to its caller, every started worker
\* process has already exited.
C4_ReturnedImpliesWorkersExited ==
  returned => AllWorkersExited

\* C5: two workers running on different models never write the same file
\* at the same time.
C5_DisjointWrites ==
  \A v \in Workers : \A w \in Workers :
     (v # w /\ InPipeline(v) /\ InPipeline(w) /\ model[v] # model[w])
        => Writing(v) \cap Writing(w) = {}

\* C6: after the queue has been filled and the workers started, every worker
\* eventually terminates, and no worker stays blocked in a pop for ever.
C6_WorkersTerminate ==
  /\ (toPut = Len(listing)) ~> AllWorkersExited
  /\ \A w \in Workers : (pc[w] = "get") ~> (pc[w] # "get")

\* the interleaving of C6: two workers saw the queue non-empty, one took the
\* last model, the other's get timed out; both have exited
C6_Witness ==
  /\ AllWorkersExited
  /\ nproc = 2
  /\ \E w \in Workers : exc[w] = "Empty"
  /\ \E i \in 1..Len(listing) : calls[i] = 1
  /\ pipe = <<>> /\ buffer = <<>>

(***************************************************************************)
(* Claims about process_miller_arrays                                      *)
(***************************************************************************)
\* the first slot of a priority list that is present in the object o, or 0
FirstPresent(o, priority) ==
  LET hits == {i \in 1..Len(priority) : o[priority[i]] # None}
  IN  IF hits = {} THEN 0 ELSE CHOOSE i \in hits : \A j \in hits : i <= j

\* the array an input array becomes under a sequence of transforms
Derived(array, steps) == [array EXCEPT !.path = @ \o steps]

AnyDataPresent(o) == \E slot \in DataSlots : o[slot] # None

AmplitudeStageOver == mpc \in {"intensities", "free", "done", "raised"}
IntensityStageOver == mpc \in {"free", "done"}

\* the priority of C7 and the derivation it names for each source
ClaimedAmplitudePriority ==
  << "reconstructed_amplitude_array", "anomalous_amplitude_array",
     "anomalous_intensity_array", "amplitude_array", "intensity_array" >>
ClaimedAmplitudeSteps ==
  << <<>>,
     <<"reconstructed_amplitude">>,
     <<"xray_amplitude", "reconstructed_amplitude">>,
     <<>>,
     <<"xray_amplitude">> >>

\* C7: the column "F" comes from the first present of reconstructed amplitude,
\* anomalous amplitude (reconstructed), anomalous intensity (anomalous
\* amplitude derived, then reconstructed), amplitude, intensity (amplitude
\* derived); with none of them the amplitude stage fails.
C7_AmplitudePriority ==
  AmplitudeStageOver =>
    LET k == FirstPresent(original, ClaimedAmplitudePriority) IN
    IF k = 0
    THEN mpc = "raised" /\ raisedAt = "amplitudes"
    ELSE /\ raisedAt = "none"
         /\ mtz.mtz_dataset[1] =
              [ label |-> "F",
                array |-> Derived(original[ClaimedAmplitudePriority[k]],
                                  ClaimedAmplitudeSteps[k]) ]

\* anomalous intensity and plain amplitude both present, nothing above them:
\* "F" was derived from the anomalous intensity
C7_Witness ==
  /\ mpc = "done"
  /\ original.reconstructed_amplitude_array = None
  /\ original.anomalous_amplitude_array = None
  /\ original.anomalous_intensity_array # None
  /\ original.amplitude_array # None
  /\ mtz.mtz_dataset[1].array.origin = "anomalous_intensity_array"

\* the priority of C8 and the derivation it names for each source
ClaimedIntensityPriority ==
  << "intensity_array", "amplitude_array", "anomalous_intensity_array",
     "anomalous_amplitude_array", "reconstructed_amplitude_array" >>
ClaimedIntensitySteps ==
  << <<>>,
     <<"xray_intensity">>,
     <<"as_non_anomalous_array", "merge_equivalents", "xray_intensity">>,
     <<"xray_intensity", "as_non_anomalous_array", "merge_equivalents",
       "xray_intensity">>,
     <<"xray_intensity", "as_non_anomalous_array", "merge_equivalents",
       "xray_intensity">> >>

\* C8: the column "I" comes from the first present, in the ORIGINAL input, of
\* intensity, amplitude, anomalous intensity (merged), anomalous amplitude
\* (anomalous intensity derived, then merged), reconstructed amplitude (same
\* path): slots filled by the amplitude stage do not change the route.
C8_IntensityPriority ==
  IntensityStageOver =>
    LET k == FirstPresent(original, ClaimedIntensityPriority) IN
    /\ k # 0
    /\ mtz.mtz_dataset[2] =
         [ label |-> "I",
           array |-> Derived(original[ClaimedIntensityPriority[k]],
                             ClaimedIntensitySteps[k]) ]

\* only the anomalous amplitude was present: the amplitude stage filled the
\* reconstructed slot, and "I" still comes from the anomalous amplitude
C8_Witness ==
  /\ mpc = "done"
  /\ \A slot \in DataSlots :
       (original[slot] # None) <=> (slot = "anomalous_amplitude_array")
  /\ mtz.reconstructed_amplitude_array # None
  /\ mtz.mtz_dataset[2].array.origin = "anomalous_amplitude_array"

IsFreeFlagArray(array) ==
  \/ array.origin = "free_array"
  \/ (array.path # <<>> /\ array.path[Len(array.path)] = "generate_r_free_flags")

\* C9: with at least one of the five data arrays present the run does not
\* fail and the dataset ends with exactly three columns, added in the order
\* "F", "I", free flags.
C9_ThreeColumns ==
  AnyDataPresent(original) =>
    /\ raisedAt = "none"
    /\ (mpc = "amplitudes" => mtz.mtz_dataset = <<>>)
    /\ (mpc = "intensities" => Len(mtz.mtz_dataset) = 1)
    /\ (mpc = "free" => Len(mtz.mtz_dataset) = 2)
    /\ (mpc = "done" =>
          /\ Len(mtz.mtz_dataset) = 3
          /\ mtz.mtz_dataset[1].label = "F"
          /\ mtz.mtz_dataset[2].label = "I"
          /\ IsFreeFlagArray(mtz.mtz_dataset[3].array)
          /\ ~IsFreeFlagArray(mtz.mtz_dataset[1].array)
          /\ ~IsFreeFlagArray(mtz.mtz_dataset[2].array))

\* a finished run that started from the intensity alone, without free flags
C9_Witness ==
  /\ mpc = "done"
  /\ \A slot \in DataSlots : (original[slot] # None) <=> (slot = "intensity_array")
  /\ original.free_array = None
  /\ Len(mtz.mtz_dataset) = 3

\* C10: with none of the five data arrays present the run fails in the
\* amplitude stage, before any column is added, with or without free flags.
C10_NoDataFails ==
  (~AnyDataPresent(original) /\ mpc # "idle" /\ mpc # "amplitudes") =>
    /\ mpc = "raised"
    /\ raisedAt = "amplitudes"
    /\ mtz.mtz_dataset = <<>>

\* the failed run of an input that holds free flags and nothing else
C10_Witness ==
  /\ ~AnyDataPresent(original)
  /\ original.free_array # None
  /\ mpc = "raised"

\* C11: the free-flag column is the input free-flag array under its own first
\* label when one was found; otherwise it is synthesized from the canonical
\* intensity array (the array of column "I") and labelled "FreeR_flag".
C11_FreeFlagLabel ==
  mpc = "done" =>
    IF original.free_array # None
    THEN mtz.mtz_dataset[3] =
           [label |-> original.free_array.label, array |-> original.free_array]
    ELSE mtz.mtz_dataset[3] =
           [ label |-> "FreeR_flag",
             array |-> Derived(mtz.mtz_dataset[2].array, <<"generate_r_free_flags">>) ]

\* a finished run whose input free-flag array was labelled "FREE"
C11_Witness ==
  /\ mpc = "done"
  /\ original.free_array # None
  /\ original.free_array.label = "FREE"
  /\ mtz.mtz_dataset[3].label = "FREE"

\* a finished run without input free flags: the column was synthesized
C11_WitnessSynthesized ==
  /\ mpc = "done"
  /\ original.free_array = None
  /\ mtz.mtz_dataset[3].label = "FreeR_flag"

(***************************************************************************)
(* Claims about get_array_types                                            *)
(***************************************************************************)
AllSlots == DataSlots \cup {"free_array"}

\* the last array of the list whose declared flavor is that of the slot
LastOfFlavor(arrays, slot) ==
  LET hits == {i \in 1..Len(arrays) : arrays[i].origin = slot}
  IN  IF hits = {} THEN None
      ELSE arrays[CHOOSE i \in hits : \A j \in hits : j <= i]

\* C12: after get_array_types every slot holds the last input array of the
\* slot's own flavor, and is empty when the input holds none of that flavor.
C12_SlotsByFlavor ==
  mpc = "amplitudes" =>
    \A slot \in AllSlots : mtz[slot] = LastOfFlavor(all_miller_arrays, slot)

(***************************************************************************)
(* Claims about amore_results.return_z_score_results                       *)
(***************************************************************************)
Scores(seq) == [k \in 1..Len(seq) |-> seq[k].CC_F_Z_score]

Cap == IF log_dir.clogs THEN CapClogs ELSE CapOther

\* C13: after one call of return_z_score_results on a fresh object,
\* sorted_results lists collected records in non-increasing order of
\* CC_F_Z_score, records of equal score in the order they were collected; and
\* when the call returned with no more records than the cap, it lists them all.
C13_SortedByScore ==
  ncalls = 1 =>
    /\ \A i \in 1..Len(sorted_results) :
         \E k \in 1..Len(results) : results[k] = sorted_results[i]
    /\ \A i, j \in 1..Len(sorted_results) :
         i < j =>
           /\ sorted_results[i].CC_F_Z_score >= sorted_results[j].CC_F_Z_score
           /\ (sorted_results[i].CC_F_Z_score = sorted_results[j].CC_F_Z_score
                 => \E a, b \in 1..Len(results) :
                      /\ a < b
                      /\ results[a] = sorted_results[i]
                      /\ results[b] = sorted_results[j])
    /\ (rerr = "none" /\ Len(results) <= Cap)
         => Len(sorted_results) = Len(results)

\* scores 5, 9, 3, 9 collected in that order come out as 9, 9, 5, 3, the
\* second record before the fourth
C13_Witness ==
  /\ ncalls = 1
  /\ rerr = "none"
  /\ Scores(results) = <<5, 9, 3, 9>>
  /\ Scores(sorted_results) = <<9, 9, 5, 3>>
  /\ sorted_results[1] = results[2]
  /\ sorted_results[2] = results[4]

\* C14: after a call, sorted_results has at most 20 entries when the log
\* directory path contains 'clogs', and at most 200 otherwise.
C14_AtMostCap ==
  ncalls = 1 => Len(sorted_results) <= Cap

\* the lines of a log that pass the test float(fields[-3]) > self.score
QualifyingLines(log) ==
  {k \in 1..Len(log) : log[k].solution /\ log[k].fm3.num /\ log[k].fm3.v > score}

FirstQualifying(log) ==
  log[CHOOSE k \in QualifyingLines(log) : \A m \in QualifyingLines(log) : k <= m]

\* every token outside the positions of CC_F, RF_F, CC_I, CC_P, Icp is a number
NumericOutsideCC(line) ==
  /\ line.f2.num /\ line.f3.num /\ line.f4.num
  /\ line.fm3.num /\ line.fm2.num /\ line.fm1.num

\* a line whose only non-numeric tokens are at CC_F, RF_F, CC_I, CC_P or Icp
StarredCC(line) ==
  /\ NumericOutsideCC(line)
  /\ ~(line.f8.num /\ line.f9.num /\ line.f10.num /\ line.f11.num /\ line.f12.num)

StarredLog(log) ==
  QualifyingLines(log) # {} /\ StarredCC(FirstQualifying(log))

\* C15: a qualifying SOLUTIONRCD line with a non-numeric token at CC_F, RF_F,
\* CC_I, CC_P or Icp does not make parsing raise; its record has the numeric
\* ALPHA, BETA, GAMMA, both Z-scores and the peak count of the line, and each
\* field whose conversion failed is 'N/A', not a number.
C15_NotAvailable ==
  ncalls = 1 =>
    /\ \A i \in 1..Len(results) :
         StarredLog(log_dir.logs[i]) =>
           LET line == FirstQualifying(log_dir.logs[i])
               rec == results[i]
           IN  /\ rec.ALPHA = line.f2.v
               /\ rec.BETA = line.f3.v
               /\ rec.GAMMA = line.f4.v
               /\ rec.CC_F_Z_score = line.fm3.v
               /\ rec.CC_P_Z_score = line.fm2.v
               /\ rec.Number_of_rotation_searches_producing_peak = line.fm1.v
               /\ (~line.f8.num => rec.CC_F = NA)
               /\ (~line.f9.num => rec.RF_F = NA)
               /\ (~line.f10.num => rec.CC_I = NA)
               /\ (~line.f11.num => rec.CC_P = NA)
               /\ (~line.f12.num => rec.Icp = NA)
    /\ (rerr = "ValueError" => ~StarredLog(log_dir.logs[Len(results) + 1]))

\* a directory with a line whose CC_F is not a number and one whose Icp is
\* not a number has been scanned, and both logs have their record
C15_Witness ==
  /\ ncalls = 1
  /\ rerr = "none"
  /\ \E i, j \in 1..Len(results) :
       /\ StarredLog(log_dir.logs[i])
       /\ ~FirstQualifying(log_dir.logs[i]).f8.num
       /\ results[i].CC_F = NA
       /\ StarredLog(log_dir.logs[j])
       /\ ~FirstQualifying(log_dir.logs[j]).f12.num
       /\ results[j].Icp = NA
       /\ results[j].CC_F_Z_score = 3

\* every token the parser reads outside the CC positions is a number
WellFormedDir ==
  \A i \in 1..Len(log_dir.logs) : \A k \in 1..Len(log_dir.logs[i]) :
    NumericOutsideCC(log_dir.logs[i][k])

\* C16: each scanned log contributes at most one record, from its first
\* SOLUTIONRCD line with a Z-score above self.score; a log without such a
\* line contributes none and raises no error.
C16_OneRecordPerQualifyingLog ==
  (ncalls = 1 /\ WellFormedDir) =>
    /\ rerr = "none"
    /\ \A i \in 1..Len(log_dir.logs) :
         LET mine == {k \in 1..Len(results) :
                        results[k].log_name = LogName(log_dir.clogs, LogFile(i))}
         IN  IF QualifyingLines(log_dir.logs[i]) = {}
             THEN mine = {}
             ELSE /\ Cardinality(mine) = 1
                  /\ \A k \in mine :
                       results[k].ALPHA = FirstQualifying(log_dir.logs[i]).f2.v

\* C20: after any number of calls of return_z_score_results on one object,
\* sorted_results is in non-increasing order of CC_F_Z_score and holds each
\* record at most once.
C20_RepeatedCalls ==
  ncalls >= 1 =>
    /\ \A i, j \in 1..Len(sorted_results) :
         i < j =>
           /\ sorted_results[i].CC_F_Z_score >= sorted_results[j].CC_F_Z_score
           /\ sorted_results[i] # sorted_results[j]

(***************************************************************************)
(* Claims about simbad_contaminant.main                                    *)
(***************************************************************************)
\* C17: when the AMORE executable path is not an existing file, main() fails
\* with a fatal error before the search is invoked: no worker is started and
\* no model is processed.
C17_NoSearchWithoutAmore ==
  ~amore_exe =>
    /\ mainPc \in {"check", "OSError"}
    /\ started = 0
    /\ toPut = 0
    /\ \A i \in 1..Len(listing) : calls[i] = 0
    /\ \A w \in Workers : pc[w] = "unstarted"

\* main() has raised OSError with models waiting in the directory
C17_Witness ==
  /\ ~amore_exe
  /\ mainPc = "OSError"
  /\ Len(listing) > 0
  /\ started = 0

(***************************************************************************)
(* Claims about get_labels                                                 *)
(***************************************************************************)
TypesOf(file) == {file.columns[k].type : k \in 1..Len(file.columns)}
LabelsOf(file) == {file.columns[k].label : k \in 1..Len(file.columns)}

\* the label of the first column of the given type
FirstOfType(file, type) ==
  file.columns[CHOOSE k \in 1..Len(file.columns) :
                 /\ file.columns[k].type = type
                 /\ \A m \in 1..(k - 1) : file.columns[m].type # type].label

\* the file has a column of the type and the column 'SIG' + its label
HasWithSigma(file, type) ==
  /\ type \in TypesOf(file)
  /\ (<<"S", "I", "G">> \o FirstOfType(file, type)) \in LabelsOf(file)

\* C18: get_labels fails when the F-typed or the J-typed column is absent or
\* its 'SIG' + label column is absent, and never because of anomalous data:
\* an MTZ file with F, J and their sigma columns always gets its labels, and
\* dano and sigdano are then both labels or both None.
C18_AnomalousOptional ==
  lpc # "call" =>
    /\ (~HasWithSigma(content, "F") \/ ~HasWithSigma(content, "J"))
         => lpc = "RuntimeError"
    /\ (content.file_type = "ccp4_mtz" /\ HasWithSigma(content, "F")
        /\ HasWithSigma(content, "J"))
         => /\ lpc = "returned"
            /\ labels.dano.none = labels.sigdano.none
            /\ labels.dano.none = ~HasWithSigma(content, "D")

\* get_labels has returned for a file with F, SIGF, I, SIGI and a DANO
\* column without SIGDANO: dano and sigdano are both None
C18_Witness ==
  /\ lpc = "returned"
  /\ "D" \in TypesOf(content)
  /\ ~HasWithSigma(content, "D")
  /\ labels.dano = NoLabel
  /\ labels.sigdano = NoLabel
  /\ labels.f.label = <<"F">>

(***************************************************************************)
(* Claims about amore.calculate_intr_box                                   *)
(***************************************************************************)
\* the extent of a set of atoms along an axis, in Angstrom
Extent(atoms, axis) ==
  LET vs == {a[axis] : a \in atoms}
  IN  (CHOOSE m \in vs : \A n \in vs : n <= m) - (CHOOSE m \in vs : \A n \in vs : m <= n)

SmallestExtent(atoms) ==
  LET es == {Extent(atoms, 1), Extent(atoms, 2), Extent(atoms, 3)}
  IN  CHOOSE m \in es : \A n \in es : m <= n

\* the resolution used, in quarters of an Angstrom: 2.0 when none was read
UsedResolution == IF pdb.resolution.known THEN pdb.resolution.value ELSE 8

\* intrad = 0.75 x the smallest extent of the first chain of the first model,
\* each dimension = the extent of its axis + intrad + resolution (in quarters)
FollowsFormula ==
  LET atoms == pdb.models[1][1] IN
    /\ box.intrad = 3 * SmallestExtent(atoms)
    /\ box.x = 4 * Extent(atoms, 1) + box.intrad + UsedResolution
    /\ box.y = 4 * Extent(atoms, 2) + box.intrad + UsedResolution
    /\ box.z = 4 * Extent(atoms, 3) + box.intrad + UsedResolution

\* the file of the example: one first chain with the four atoms, resolution 2.0
IsExample ==
  /\ pdb.models # <<>>
  /\ pdb.models[1] # <<>>
  /\ pdb.models[1][1] = {<<0, 0, 0>>, <<10, 0, 0>>, <<0, 5, 0>>, <<0, 0, 2>>}
  /\ UsedResolution = 8

\* C19 as stated: calculate_intr_box returns (x, y, z, intrad) by the formula,
\* and the coordinates {(0,0,0),(10,0,0),(0,5,0),(0,0,2)} at resolution 2.0
\* give (13.5, 8.5, 5.0, 1.5).
C19_AsStated ==
  bpc = "returned" =>
    /\ FollowsFormula
    /\ IsExample => box = [x |-> 54, y |-> 34, z |-> 20, intrad |-> 6]

\* C19, amended: calculate_intr_box returns (x, y, z, intrad) with intrad =
\* 0.75 x the smallest extent of the first chain of the first model and each
\* dimension = extent + intrad + resolution (2.0 when none is read); the
\* coordinates {(0,0,0),(10,0,0),(0,5,0),(0,0,2)} at resolution 2.0 give
\* (13.5, 8.5, 5.5, 1.5).
C19_IntrBox ==
  bpc = "returned" =>
    /\ FollowsFormula
    /\ IsExample => box = [x |-> 54, y |-> 34, z |-> 22, intrad |-> 6]

\* the example file, followed by a second chain, has been measured with the
\* default resolution
C19_Witness ==
  /\ bpc = "returned"
  /\ IsExample
  /\ ~pdb.resolution.known
  /\ Len(pdb.models[1]) = 2
  /\ box.z = 22

====
